---------------------------- MODULE Spec2Model ----------------------------
(***************************************************************************)
(* A model of the rank initialisation and crossing-minimisation ordering   *)
(* subsystem of dagre: lib/util.js, lib/rank/util.js, lib/order/index.js   *)
(* and lib/order/build-layer-graph.js.                                     *)
(*                                                                         *)
(* The program is synchronous and single threaded.  Each scenario below    *)
(* (ranking, ordering, empty-rank removal, id generation, layer-graph      *)
(* construction, chunked reduction) has its own initial predicate and      *)
(* next-state relation over the same variables.                            *)
(***************************************************************************)
EXTENDS Integers, Sequences, FiniteSets, TLC

VARIABLES
    pc,         \* position of the scenario's driver
    g,          \* the main graph: nodes, edges and their labels
    args,       \* arguments of the call the scenario is about
    ret,        \* value returned by the last call
    idCounter,  \* util.js: the process-wide counter behind uniqueId
    returned,   \* history: one record per identifier a call has returned
    loop,       \* order(): its locals (layer graphs, i, lastBest, bestCC, best)
    obs         \* history: what the iterations of order() did, for the claims

vars == <<pc, g, args, ret, idCounter, returned, loop, obs>>

(***************************************************************************)
(* Bounds of the model.                                                    *)
(***************************************************************************)
MaxNodes == 3
MaxMinlen == 2
MaxChunks == 2      \* full chunks in the longest argument list
MaxCalls == 3       \* calls of the identifier scenario
MaxRankValue == 4   \* largest rank given to a node before empty-rank removal
MaxFactor == 3      \* largest nodeRankFactor
MaxEdges == 2       \* edges of the graph a layer graph is built from
MaxRanks == 3       \* ranks of the graph that is ordered
MaxFairRanks == 2   \* the same, where the behaviours are checked under fairness

\* util.js sets CHUNKING_THRESHOLD to 65535.  The code uses the threshold only
\* in the comparison argsArray.length > CHUNKING_THRESHOLD and as the chunk
\* size of splitToChunks, so the model scales it down and treats it as a bound:
\* argument lists of 65536 elements are out of reach of explicit enumeration.
CHUNKING_THRESHOLD == 3

(***************************************************************************)
(* JavaScript numbers the code names.  Infinity and Number.MAX_VALUE are   *)
(* modelled by integers larger than every value the model computes, which  *)
(* keeps their order with respect to every finite value.                   *)
(***************************************************************************)
POSITIVE_INFINITY == 1000000
NEGATIVE_INFINITY == -1000000
MAX_VALUE == 999999

(***************************************************************************)
(* Generic helpers.                                                        *)
(***************************************************************************)
Put(f, k, v) == (k :> v) @@ f

\* F of the value of x, with x evaluated once
With(x, F(_)) == CHOOSE r \in {F(v) : v \in {x}} : TRUE

SeqRange(s) == {s[k] : k \in DOMAIN s}

RECURSIVE SetToSeq(_)
SetToSeq(S) ==
    IF S = {} THEN <<>>
    ELSE LET x == CHOOSE y \in S : TRUE IN <<x>> \o SetToSeq(S \ {x})

EmptyFn == [x \in {} |-> 0]

(***************************************************************************)
(* Math.min / Math.max applied to an argument list (fn.apply(null, xs)).   *)
(* With no argument Math.min is Infinity and Math.max is -Infinity.        *)
(***************************************************************************)
MathMin(xs) ==
    With(SeqRange(xs), LAMBDA S : IF S = {} THEN POSITIVE_INFINITY
                                  ELSE CHOOSE m \in S : \A y \in S : m <= y)

MathMax(xs) ==
    With(SeqRange(xs), LAMBDA S : IF S = {} THEN NEGATIVE_INFINITY
                                  ELSE CHOOSE m \in S : \A y \in S : m >= y)

Apply(fn, xs) == IF fn = "min" THEN MathMin(xs) ELSE MathMax(xs)

(***************************************************************************)
(* util.js: splitToChunks and applyWithChunking.                           *)
(***************************************************************************)
Slice(array, from, to) ==
    \* array.slice(from, to) with 0-based from (inclusive) and to (exclusive)
    LET hi == IF to > Len(array) THEN Len(array) ELSE to
    IN [k \in 1..(hi - from) |-> array[from + k]]

RECURSIVE splitFrom_dropShort(_, _, _)
\* splitToChunks that keeps only the chunks of full size
splitFrom_dropShort(array, chunkSize, idx) ==
    IF idx + chunkSize <= Len(array)
    THEN <<Slice(array, idx, idx + chunkSize)>>
            \o splitFrom_dropShort(array, chunkSize, idx + chunkSize)
    ELSE <<>>

RECURSIVE splitFrom(_, _, _)
splitFrom(array, chunkSize, idx) ==
    IF idx < Len(array)
    THEN <<Slice(array, idx, idx + chunkSize)>> \o splitFrom(array, chunkSize, idx + chunkSize)
    ELSE <<>>

splitToChunks(array, chunkSize) == splitFrom(array, chunkSize, 0)

applyWithChunking(fn, argsArray) ==
    IF Len(argsArray) > CHUNKING_THRESHOLD
    THEN With(splitToChunks(argsArray, CHUNKING_THRESHOLD),
              LAMBDA chunks : Apply(fn, [k \in DOMAIN chunks |-> Apply(fn, chunks[k])]))
    ELSE Apply(fn, argsArray)

(***************************************************************************)
(* The graph abstraction (graphlib), as far as the code uses it.  A graph  *)
(* is a record: nodes (ids in insertion order), edges (a set of edge       *)
(* objects [v, w, name]), edge (the label of each edge) and one partial    *)
(* function per node attribute (a node outside its domain does not have    *)
(* the attribute).                                                         *)
(***************************************************************************)
outEdges(gr, v) == SetToSeq({e \in gr.edges : e.v = v})
inEdges(gr, v) == SetToSeq({e \in gr.edges : e.w = v})
sources(gr) == SelectSeq(gr.nodes, LAMBDA v : \A e \in gr.edges : e.w # v)

hasNode(gr, v) == v \in SeqRange(gr.nodes)

\* g.setNode(v, label): adds v when it is new and (re)sets its label
setNode(gr, v, label) ==
    [gr EXCEPT !.nodes = IF hasNode(gr, v) THEN @ ELSE Append(@, v),
               !.label = Put(@, v, label)]

(***************************************************************************)
(* util.js: uniqueId, addDummyNode, addBorderNode; build-layer-graph.js:   *)
(* createRootNode.  A string is a sequence of characters; "" + id is the   *)
(* decimal numeral of id.                                                  *)
(***************************************************************************)
Digit(d) == <<"0", "1", "2", "3", "4", "5", "6", "7", "8", "9">>[d + 1]

RECURSIVE NumberToString(_)
NumberToString(n) == IF n < 10 THEN <<Digit(n)>> ELSE NumberToString(n \div 10) \o <<Digit(n % 10)>>

\* the counter is passed in and handed back with the identifier
uniqueId(counter, prefix) ==
    LET id == counter + 1
    IN [idCounter |-> id, id |-> prefix \o NumberToString(id)]

\* the loop of addDummyNode: while (g.hasNode(v)) v = uniqueId(name)
RECURSIVE probeDummy(_, _, _, _)
probeDummy(gr, counter, name, v) ==
    IF hasNode(gr, v)
    THEN LET u == uniqueId(counter, name) IN probeDummy(gr, u.idCounter, name, u.id)
    ELSE [idCounter |-> counter, id |-> v]

\* addDummyNode probing once (if) instead of until the id is free (while)
addDummyNode_probeOnce(gr, counter, type, attrs, name) ==
    LET p == IF hasNode(gr, name) THEN uniqueId(counter, name)
             ELSE [idCounter |-> counter, id |-> name]
    IN [g |-> setNode(gr, p.id, Put(attrs, "dummy", type)),
        idCounter |-> p.idCounter, v |-> p.id]

addDummyNode(gr, counter, type, attrs, name) ==
    LET p == probeDummy(gr, counter, name, name)
    IN [g |-> setNode(gr, p.id, Put(attrs, "dummy", type)),
        idCounter |-> p.idCounter, v |-> p.id]

\* pos is <<>> (two arguments) or <<rank, order>> (arguments.length >= 4)
addBorderNode(gr, counter, prefix, pos) ==
    LET node0 == [width |-> 0, height |-> 0]
        node == IF pos # <<>>
                THEN Put(Put(node0, "rank", pos[1]), "order", pos[2])
                ELSE node0
    IN addDummyNode(gr, counter, "border", node, prefix)

ROOT == <<"_", "r", "o", "o", "t">>

\* while (g.hasNode((v = util.uniqueId("_root"))));
RECURSIVE createRootNode(_, _)
createRootNode(gr, counter) ==
    LET u == uniqueId(counter, ROOT)
    IN IF hasNode(gr, u.id) THEN createRootNode(gr, u.idCounter) ELSE u

(***************************************************************************)
(* order/index.js: buildLayerGraphs (the rank index) and buildLayerGraph.  *)
(* A layer graph is a compound graph that is not a multigraph: its edges   *)
(* are keyed by the pair (v, w).  A node set without a label gets the      *)
(* default label, which is the label object of the same node in g; the     *)
(* model writes [shared |-> v] for it.                                     *)
(***************************************************************************)
newLayerGraph(root) ==
    [root |-> root, nodes |-> <<>>, label |-> EmptyFn, parent |-> EmptyFn,
     edges |-> {}, edge |-> EmptyFn]

\* result.setNode(v): a new node gets the default label, an old one is kept
lgSetNode(res, v) ==
    IF hasNode(res, v) THEN res
    ELSE [res EXCEPT !.nodes = Append(@, v), !.label = Put(@, v, [shared |-> v])]

\* result.setParent(v, parent): both nodes are created when missing
lgSetParent(res, v, parent) ==
    [lgSetNode(lgSetNode(res, parent), v) EXCEPT !.parent = Put(@, v, parent)]

\* result.setEdge(u, v, label): both nodes are created when missing
lgSetEdge(res, u, v, label) ==
    LET e == [v |-> u, w |-> v]
    IN [lgSetNode(lgSetNode(res, u), v) EXCEPT
           !.edges = @ \cup {e}, !.edge = Put(@, e, label)]

isMovable(gr, v, rank) ==
    \/ v \in DOMAIN gr.rank /\ gr.rank[v] = rank
    \/ /\ v \in DOMAIN gr.minRank /\ v \in DOMAIN gr.maxRank
       /\ gr.minRank[v] <= rank /\ rank <= gr.maxRank[v]

relationshipEdges(gr, relationship, v) ==
    IF relationship = "inEdges" THEN inEdges(gr, v) ELSE outEdges(gr, v)

\* the edge loop that overwrites the merged weight instead of adding to it
RECURSIVE copyEdges_overwrite(_, _, _, _)
copyEdges_overwrite(gr, v, es, res) ==
    IF es = <<>> THEN res
    ELSE LET e == Head(es)
             u == IF e.v = v THEN e.w ELSE e.v
         IN copyEdges_overwrite(gr, v, Tail(es),
                                lgSetEdge(res, u, v, [weight |-> gr.edge[e].weight]))

\* g[relationship](v).forEach(e => ...)
RECURSIVE copyEdges(_, _, _, _)
copyEdges(gr, v, es, res) ==
    IF es = <<>> THEN res
    ELSE LET e == Head(es)
             u == IF e.v = v THEN e.w ELSE e.v
             edge == [v |-> u, w |-> v]
             weight == IF edge \in res.edges THEN res.edge[edge].weight ELSE 0
         IN copyEdges(gr, v, Tail(es),
                      lgSetEdge(res, u, v, [weight |-> gr.edge[e].weight + weight]))

\* the body of nodesWithRank.forEach for one node
layerNode(gr, rank, relationship, v, res) ==
    IF isMovable(gr, v, rank)
    THEN LET parent == IF v \in DOMAIN gr.parent THEN gr.parent[v] ELSE res.root
             r1 == lgSetParent(lgSetNode(res, v), v, parent)
             r2 == copyEdges(gr, v, relationshipEdges(gr, relationship, v), r1)
         IN IF v \in DOMAIN gr.minRank
            THEN [r2 EXCEPT !.label = Put(@, v, [borderLeft |-> gr.borderLeft[v][rank],
                                                 borderRight |-> gr.borderRight[v][rank]])]
            ELSE r2
    ELSE res

RECURSIVE layerNodes(_, _, _, _, _)
layerNodes(gr, rank, relationship, vs, res) ==
    IF vs = <<>> THEN res
    ELSE layerNodes(gr, rank, relationship, Tail(vs),
                    layerNode(gr, rank, relationship, Head(vs), res))

\* nodesWithRank is a sequence of nodes, or "undefined" for all the nodes of g;
\* the result comes with the id counter createRootNode leaves
buildLayerGraph(gr, counter, rank, relationship, nodesWithRank) ==
    LET vs == IF nodesWithRank = "undefined" THEN gr.nodes ELSE nodesWithRank
        root == createRootNode(gr, counter)
    IN [lg |-> layerNodes(gr, rank, relationship, vs, newLayerGraph(root.id)),
        idCounter |-> root.idCounter]

\* the index from a rank to the nodes that have it or span it, in node order
nodesByRank(gr, rank) ==
    SelectSeq(gr.nodes, LAMBDA v :
        \/ v \in DOMAIN gr.rank /\ gr.rank[v] = rank
        \/ /\ v \in DOMAIN gr.minRank /\ v \in DOMAIN gr.maxRank
           /\ gr.minRank[v] <= rank /\ rank <= gr.maxRank[v]
           /\ (v \in DOMAIN gr.rank => gr.rank[v] # rank))

\* ranks.map(rank => buildLayerGraph(g, rank, relationship, nodesByRank.get(rank) || []))
RECURSIVE buildLayerGraphs(_, _, _, _)
buildLayerGraphs(gr, counter, ranks, relationship) ==
    IF ranks = <<>> THEN [lgs |-> <<>>, idCounter |-> counter]
    ELSE LET b == buildLayerGraph(gr, counter, Head(ranks), relationship,
                                  nodesByRank(gr, Head(ranks)))
             rest == buildLayerGraphs(gr, b.idCounter, Tail(ranks), relationship)
         IN [lgs |-> <<b.lg>> \o rest.lgs, idCounter |-> rest.idCounter]

(***************************************************************************)
(* util.js: range, maxRank, buildLayerMatrix.                              *)
(***************************************************************************)
RECURSIVE rangeFrom(_, _, _)
rangeFrom(i, limit, step) ==
    IF (IF step < 0 THEN limit < i ELSE i < limit)
    THEN <<i>> \o rangeFrom(i + step, limit, step)
    ELSE <<>>

range(start, limit, step) == With(limit, LAMBDA l : rangeFrom(start, l, step))

\* Number.MIN_VALUE is 5e-324, the smallest positive double: below every
\* positive integer, and absorbed by maxRank + 1 and maxRank - 1.  Among the
\* model's integers it is 0.
MIN_VALUE == 0

maxRank(gr) ==
    LET nodeRanks == [k \in DOMAIN gr.nodes |->
                        IF gr.nodes[k] \in DOMAIN gr.rank
                        THEN gr.rank[gr.nodes[k]] ELSE MIN_VALUE]
    IN applyWithChunking("max", nodeRanks)

RECURSIVE Ascending(_)
Ascending(S) ==
    IF S = {} THEN <<>>
    ELSE LET m == CHOOSE x \in S : \A y \in S : x <= y
         IN <<m>> \o Ascending(S \ {m})

\* A layering maps each rank 0..maxRank to a row; a row maps positions to
\* nodes and may have holes.  A ranked node without an order lands on the
\* property "undefined" of its row, which is no position.
RECURSIVE fillLayers(_, _, _)
fillLayers(gr, vs, layering) ==
    IF vs = <<>> THEN layering
    ELSE LET v == Head(vs)
             filled == IF v \in DOMAIN gr.rank /\ v \in DOMAIN gr.order
                       THEN [layering EXCEPT ![gr.rank[v]] = Put(@, gr.order[v], v)]
                       ELSE layering
         IN With(filled, LAMBDA next : fillLayers(gr, Tail(vs), next))

buildLayerMatrix(gr) ==
    With(SeqRange(range(0, maxRank(gr) + 1, 1)),
         LAMBDA ranks : fillLayers(gr, gr.nodes, [r \in ranks |-> EmptyFn]))

(***************************************************************************)
(* order/index.js: assignOrder, sweepLayerGraphs and the loop of order.    *)
(***************************************************************************)
RECURSIVE assignRow(_, _, _)
assignRow(order, row, idxs) ==
    IF idxs = <<>> THEN order
    ELSE With(Put(order, row[Head(idxs)], Head(idxs)),
              LAMBDA next : assignRow(next, row, Tail(idxs)))

RECURSIVE assignRows(_, _, _)
assignRows(order, layering, keys) ==
    IF keys = <<>> THEN order
    ELSE With(With(Ascending(DOMAIN layering[Head(keys)]),
                   LAMBDA idxs : assignRow(order, layering[Head(keys)], idxs)),
              LAMBDA next : assignRows(next, layering, Tail(keys)))

assignOrder(gr, layering) ==
    [gr EXCEPT !.order = With(Ascending(DOMAIN layering),
                              LAMBDA keys : assignRows(gr.order, layering, keys))]

\* sorted.vs.forEach((v, i) => lg.node(v).order = i): the label of a node of
\* the layer graph is the label of the node in g unless the layer graph gave
\* the node a label of its own
RECURSIVE writeOrder_oneBased(_, _, _, _)
\* the write-back that numbers the positions from 1
writeOrder_oneBased(gr, lg, vs, i) ==
    IF vs = <<>> THEN [g |-> gr, lg |-> lg]
    ELSE LET v == Head(vs)
         IN IF "shared" \in DOMAIN lg.label[v]
            THEN writeOrder_oneBased([gr EXCEPT !.order = Put(@, v, i + 1)], lg,
                                     Tail(vs), i + 1)
            ELSE writeOrder_oneBased(gr, [lg EXCEPT !.label[v] = Put(@, "order", i + 1)],
                                     Tail(vs), i + 1)

RECURSIVE writeOrder(_, _, _, _)
writeOrder(gr, lg, vs, i) ==
    IF vs = <<>> THEN [g |-> gr, lg |-> lg]
    ELSE LET v == Head(vs)
         IN IF "shared" \in DOMAIN lg.label[v]
            THEN writeOrder([gr EXCEPT !.order = Put(@, v, i)], lg, Tail(vs), i + 1)
            ELSE writeOrder(gr, [lg EXCEPT !.label[v] = Put(@, "order", i)],
                            Tail(vs), i + 1)

\* sorted[k] is what sortSubgraph returned for the k-th layer graph
RECURSIVE sweepFrom(_, _, _, _)
sweepFrom(gr, layerGraphs, sorted, k) ==
    IF k > Len(layerGraphs) THEN [g |-> gr, lgs |-> layerGraphs]
    ELSE LET w == writeOrder(gr, layerGraphs[k], sorted[k], 0)
         IN sweepFrom(w.g, [layerGraphs EXCEPT ![k] = w.lg], sorted, k + 1)

sweepLayerGraphs(gr, layerGraphs, sorted) == sweepFrom(gr, layerGraphs, sorted, 1)

\* the choice of the family with the branches of the conditional exchanged
sweepFamily_evenDown(i) == IF i % 2 # 0 THEN "upLayerGraphs" ELSE "downLayerGraphs"

\* the family swept at iteration i and the flag handed to the sorter
sweepFamily(i) == IF i % 2 # 0 THEN "downLayerGraphs" ELSE "upLayerGraphs"

biasRightAt(i) == i % 4 >= 2

loopContinues(lp) == lp.lastBest < 4

\* the body with cc <= bestCC for the test, which takes a tie for a new best
orderIteration_resetOnTie(lp, swept, layering, cc) ==
    IF cc <= lp.bestCC
    THEN [lp EXCEPT ![sweepFamily(lp.i)] = swept, !.layering = layering,
                    !.best = [defined |-> TRUE, layering |-> layering],
                    !.bestCC = cc, !.lastBest = 0 + 1, !.i = @ + 1]
    ELSE [lp EXCEPT ![sweepFamily(lp.i)] = swept, !.layering = layering,
                    !.lastBest = @ + 1, !.i = @ + 1]

\* the body of the for loop followed by its step ++i, ++lastBest; cc is the
\* crossing count of the layering the sweep left
orderIteration(lp, swept, layering, cc) ==
    IF cc < lp.bestCC
    THEN [lp EXCEPT ![sweepFamily(lp.i)] = swept, !.layering = layering,
                    !.best = [defined |-> TRUE, layering |-> layering],
                    !.bestCC = cc, !.lastBest = 0 + 1, !.i = @ + 1]
    ELSE [lp EXCEPT ![sweepFamily(lp.i)] = swept, !.layering = layering,
                    !.lastBest = @ + 1, !.i = @ + 1]

\* committing the layering the last iteration left instead of the snapshot
committed_last(lp) == [defined |-> TRUE, layering |-> lp.layering]

\* the layering order() commits at line 60
committed(lp) == lp.best

(***************************************************************************)
(* The external collaborators of order(): init-order.js, sort-subgraph.js  *)
(* and cross-count.js, by their contracts.  The seeder returns, for every  *)
(* rank, the nodes of the rank in some order, each once.  The sorter       *)
(* returns the movable leaf nodes of a layer graph in some order, each     *)
(* once.  The crossing counter counts the pairs of edges between two       *)
(* adjacent rows that cross.  addSubgraphConstraints only feeds the        *)
(* sorter.                                                                 *)
(***************************************************************************)
Orderings(S) ==
    {s \in [1..Cardinality(S) -> S] : \A a, b \in DOMAIN s : a # b => s[a] # s[b]}

RowsOf(S) == {[i \in 0..(Len(s) - 1) |-> s[i + 1]] : s \in Orderings(S)}

initOrder(gr) ==
    LET ranks == SeqRange(range(0, maxRank(gr) + 1, 1))
        at(r) == {v \in DOMAIN gr.rank : gr.rank[v] = r}
    IN {L \in [ranks -> UNION {RowsOf(at(r)) : r \in ranks}] :
           \A r \in ranks : L[r] \in RowsOf(at(r))}

movableLeaves(lg) ==
    {v \in DOMAIN lg.parent : \A c \in DOMAIN lg.parent : lg.parent[c] # v}

sortSubgraph(lg) == Orderings(movableLeaves(lg))

\* one sorter result per layer graph of the family
RECURSIVE sortSubgraphs(_)
sortSubgraphs(layerGraphs) ==
    IF layerGraphs = <<>> THEN {<<>>}
    ELSE {<<first>> \o rest : first \in sortSubgraph(Head(layerGraphs)),
                              rest \in sortSubgraphs(Tail(layerGraphs))}

position(row, v) == CHOOSE i \in DOMAIN row : row[i] = v

twoLayerCrossCount(gr, north, south) ==
    LET N == {north[i] : i \in DOMAIN north}
        S == {south[i] : i \in DOMAIN south}
        E == {e \in gr.edges : e.v \in N /\ e.w \in S}
    IN Cardinality({p \in E \X E :
           /\ position(north, p[1].v) < position(north, p[2].v)
           /\ position(south, p[1].w) > position(south, p[2].w)})

RECURSIVE crossCountFrom(_, _, _)
crossCountFrom(gr, layering, r) ==
    IF r \notin DOMAIN layering THEN 0
    ELSE twoLayerCrossCount(gr, layering[r - 1], layering[r])
         + crossCountFrom(gr, layering, r + 1)

crossCount(gr, layering) == crossCountFrom(gr, layering, 1)

(***************************************************************************)
(* rank/util.js: longestPath and slack.                                    *)
(***************************************************************************)
RECURSIVE dfs(_, _, _)
RECURSIVE dfsOutEdges(_, _, _, _)

\* the map over g.outEdges(v): st threads the visited set and the ranks
dfsOutEdges(gr, es, st, acc) ==
    IF es = <<>> THEN [st |-> st, vals |-> acc]
    ELSE LET e == Head(es)
             st1 == dfs(gr, e.w, st)
         IN dfsOutEdges(gr, Tail(es), st1,
                        Append(acc, st1.rank[e.w] - gr.edge[e].minlen))

dfs(gr, v, st) ==
    IF v \in st.visited THEN st
    ELSE LET r == dfsOutEdges(gr, outEdges(gr, v),
                              [st EXCEPT !.visited = @ \cup {v}], <<>>)
             rank0 == applyWithChunking("min", r.vals)
             rank == IF rank0 = POSITIVE_INFINITY THEN 0 ELSE rank0
         IN [r.st EXCEPT !.rank = Put(@, v, rank)]

RECURSIVE dfsAll(_, _, _)
dfsAll(gr, vs, st) ==
    IF vs = <<>> THEN st ELSE dfsAll(gr, Tail(vs), dfs(gr, Head(vs), st))

longestPath(gr) ==
    [gr EXCEPT !.rank = dfsAll(gr, sources(gr), [visited |-> {}, rank |-> gr.rank]).rank]

slack(gr, e) == gr.rank[e.w] - gr.rank[e.v] - gr.edge[e].minlen

(***************************************************************************)
(* util.js: normalizeRanks.                                                *)
(***************************************************************************)
\* normalizeRanks reducing with Math.max instead of Math.min
normalizeRanks_max(gr) ==
    LET nodeRanks == [k \in DOMAIN gr.nodes |->
                        IF gr.nodes[k] \in DOMAIN gr.rank
                        THEN gr.rank[gr.nodes[k]] ELSE MAX_VALUE]
        max == applyWithChunking("max", nodeRanks)
    IN [gr EXCEPT !.rank = [v \in DOMAIN gr.rank |-> gr.rank[v] - max]]

normalizeRanks(gr) ==
    LET nodeRanks == [k \in DOMAIN gr.nodes |->
                        IF gr.nodes[k] \in DOMAIN gr.rank
                        THEN gr.rank[gr.nodes[k]] ELSE MAX_VALUE]
        min == applyWithChunking("min", nodeRanks)
    IN [gr EXCEPT !.rank = [v \in DOMAIN gr.rank |-> gr.rank[v] - min]]

(***************************************************************************)
(* util.js: removeEmptyRanks.  layers[i] holds the nodes whose rank is     *)
(* offset + i, in node order; an index no node has is undefined (<<>>).    *)
(***************************************************************************)
layersOf(gr, offset) ==
    LET len == MathMax([k \in DOMAIN gr.nodes |-> gr.rank[gr.nodes[k]] - offset]) + 1
    IN [i \in 0..(len - 1) |-> SelectSeq(gr.nodes, LAMBDA v : gr.rank[v] - offset = i)]

\* the forEach over Array.from(layers), from index i on
RECURSIVE walkLayers(_, _, _, _, _)
walkLayers(layers, nodeRankFactor, i, delta, rank) ==
    IF i \notin DOMAIN layers THEN rank
    ELSE LET vs == layers[i]
         IN IF vs = <<>> /\ i % nodeRankFactor # 0
            THEN walkLayers(layers, nodeRankFactor, i + 1, delta - 1, rank)
            ELSE IF vs # <<>> /\ delta # 0
            THEN walkLayers(layers, nodeRankFactor, i + 1, delta,
                            [v \in DOMAIN rank |->
                                IF v \in SeqRange(vs) THEN rank[v] + delta ELSE rank[v]])
            ELSE walkLayers(layers, nodeRankFactor, i + 1, delta, rank)

\* removeEmptyRanks without the test i % nodeRankFactor !== 0: every empty
\* rank is dropped (index 0 is never empty, and no index from 1 on is a
\* multiple of a factor larger than all of them)
removeEmptyRanks_dropAll(gr) ==
    LET nodeRanks == [k \in DOMAIN gr.nodes |-> gr.rank[gr.nodes[k]]]
        offset == applyWithChunking("min", nodeRanks)
        layers == layersOf(gr, offset)
    IN [gr EXCEPT !.rank = walkLayers(layers, Cardinality(DOMAIN layers) + 1, 1, 0, @)]

removeEmptyRanks(gr) ==
    LET nodeRanks == [k \in DOMAIN gr.nodes |-> gr.rank[gr.nodes[k]]]
        offset == applyWithChunking("min", nodeRanks)
        layers == layersOf(gr, offset)
    IN [gr EXCEPT !.rank = walkLayers(layers, gr.nodeRankFactor, 0, 0, @)]

(***************************************************************************)
(* Scenario: ranking.  The input is any acyclic graph on at most MaxNodes  *)
(* nodes whose edges carry a minlen in 1..MaxMinlen.                       *)
(***************************************************************************)
UPairs(n) == {p \in (1..n) \X (1..n) : p[1] < p[2]}

\* c[p] > 0: edge p[1] -> p[2] with minlen c[p]; c[p] < 0: edge p[2] -> p[1]
EdgesOf(c) ==
    {[v |-> p[1], w |-> p[2], name |-> 0] : p \in {q \in DOMAIN c : c[q] > 0}}
    \cup {[v |-> p[2], w |-> p[1], name |-> 0] : p \in {q \in DOMAIN c : c[q] < 0}}

RECURSIVE IsAcyclic(_, _)
IsAcyclic(V, E) ==
    IF V = {} THEN TRUE
    ELSE LET S == {v \in V : \A e \in E : e.w # v}
         IN IF S = {} THEN FALSE
            ELSE IsAcyclic(V \ S, {e \in E : e.v \notin S})

RankGraph(n, c) ==
    LET E == EdgesOf(c)
    IN [nodes |-> [k \in 1..n |-> k],
        edges |-> E,
        edge |-> [e \in E |->
                    LET m == IF e.v < e.w THEN c[<<e.v, e.w>>] ELSE -c[<<e.w, e.v>>]
                    IN [minlen |-> m, weight |-> 1]],
        rank |-> EmptyFn]

InitRank ==
    /\ pc = "rank_start"
    /\ \E n \in 1..MaxNodes :
          \E c \in [UPairs(n) -> (-MaxMinlen)..MaxMinlen] :
             /\ IsAcyclic(1..n, EdgesOf(c))
             /\ g = RankGraph(n, c)
    /\ args = <<>>
    /\ ret = 0
    /\ idCounter = 0
    /\ returned = <<>>
    /\ loop = <<>>
    /\ obs = <<>>

LongestPath ==
    /\ pc = "rank_start"
    /\ g' = longestPath(g)
    /\ pc' = "ranked"
    /\ UNCHANGED <<args, ret, idCounter, returned, loop, obs>>

NormalizeRanks ==
    /\ pc = "ranked"
    /\ g' = normalizeRanks(g)
    /\ pc' = "normalized"
    /\ UNCHANGED <<args, ret, idCounter, returned, loop, obs>>

NextRank == LongestPath \/ NormalizeRanks

SpecRank == InitRank /\ [][NextRank]_vars

\* C1: after longestPath then normalizeRanks on an acyclic graph every node
\* has a rank, the minimum rank is exactly 0 and every edge has slack >= 0.
C1_RankedNormalizedTight ==
    pc = "normalized" =>
        /\ DOMAIN g.rank = SeqRange(g.nodes)
        /\ \A v \in DOMAIN g.rank : g.rank[v] \in Int /\ g.rank[v] >= 0
        /\ \E v \in DOMAIN g.rank : g.rank[v] = 0
        /\ \A e \in g.edges : slack(g, e) >= 0

C1_Witness ==
    /\ pc = "normalized"
    /\ Len(g.nodes) = 3
    /\ \E e \in g.edges : g.edge[e].minlen = 2 /\ slack(g, e) = 0
    /\ \E e \in g.edges : slack(g, e) > 0
(***************************************************************************)
(* Scenario: chunked reduction.  The argument list has args.len elements,  *)
(* all equal to args.base except the one at index args.pos (1-based, 0 for *)
(* none), which is args.val.  The lengths run from 0 to one more than       *)
(* MaxChunks full chunks.                                                  *)
(***************************************************************************)
ChunkLengths == 0 .. (MaxChunks * CHUNKING_THRESHOLD + 1)

ChunkPositions(len) == 0 .. len

argsArray == [k \in 1..args.len |-> IF k = args.pos THEN args.val ELSE args.base]

InitChunk ==
    /\ pc = "chunk_start"
    /\ g = <<>>
    /\ \E fn \in {"min", "max"}, len \in ChunkLengths, val \in {3, 7} :
          \E pos \in ChunkPositions(len) :
             args = [fn |-> fn, len |-> len, pos |-> pos, val |-> val, base |-> 5]
    /\ ret = 0
    /\ idCounter = 0
    /\ returned = <<>>
    /\ loop = <<>>
    /\ obs = <<>>

ApplyWithChunking ==
    /\ pc = "chunk_start"
    /\ ret' = applyWithChunking(args.fn, argsArray)
    /\ pc' = "chunk_done"
    /\ UNCHANGED <<g, args, idCounter, returned, loop, obs>>

NextChunk == ApplyWithChunking

SpecChunk == InitChunk /\ [][NextChunk]_vars

\* C10: applyWithChunking(fn, xs) returns what fn applied to the whole of xs
\* returns, for fn = min and fn = max and every length of xs.
C10_ChunkingIsTransparent ==
    pc = "chunk_done" => ret = Apply(args.fn, argsArray)

C10_Witness ==
    /\ pc = "chunk_done"
    /\ args.len = MaxChunks * CHUNKING_THRESHOLD + 1
    /\ args.pos = args.len
    /\ args.fn = "min" /\ args.val = 3
    /\ ret = 3

(***************************************************************************)
(* Scenario: identifier generation.  One graph, pre-populated with any     *)
(* subset of the ids the generators would pick, receives up to MaxCalls    *)
(* calls of uniqueId, addDummyNode, addBorderNode and createRootNode.      *)
(* args records the last call with the graph it was given; returned has    *)
(* one record per call: the identifier, the prefix, and the counter value  *)
(* the identifier was built from (0 when the counter was not consulted).   *)
(***************************************************************************)
Names == {<<"x">>, <<"x", "1">>}

Prepopulated == {<<"x">>, <<"x", "1">>, <<"x", "2">>, ROOT \o <<"1">>}

IdGraph(S) ==
    LET vs == SetToSeq(S)
    IN [nodes |-> vs, label |-> [v \in S |-> [width |-> 1, height |-> 1]]]

InitIds ==
    /\ pc = "ids"
    /\ \E S \in SUBSET Prepopulated : g = IdGraph(S)
    /\ args = [op |-> "none"]
    /\ ret = <<>>
    /\ idCounter = 0
    /\ returned = <<>>
    /\ loop = <<>>
    /\ obs = <<>>

Record(op, prefix, n, id) ==
    Append(returned, [op |-> op, prefix |-> prefix, id |-> id, n |-> n])

\* the counter value a probing call built its identifier from, 0 if none
Drawn(before, after) == IF after > before THEN after ELSE 0

\* a call of uniqueId whose increment of the counter is lost
UniqueId_lostIncrement ==
    /\ pc = "ids"
    /\ Len(returned) < MaxCalls
    /\ \E prefix \in Names :
          LET u == uniqueId(idCounter, prefix)
          IN /\ idCounter' = idCounter
             /\ ret' = u.id
             /\ args' = [op |-> "uniqueId", prefix |-> prefix]
             /\ returned' = Record("uniqueId", prefix, u.idCounter, u.id)
    /\ UNCHANGED <<pc, g, loop, obs>>

UniqueId ==
    /\ pc = "ids"
    /\ Len(returned) < MaxCalls
    /\ \E prefix \in Names :
          LET u == uniqueId(idCounter, prefix)
          IN /\ idCounter' = u.idCounter
             /\ ret' = u.id
             /\ args' = [op |-> "uniqueId", prefix |-> prefix]
             /\ returned' = Record("uniqueId", prefix, u.idCounter, u.id)
    /\ UNCHANGED <<pc, g, loop, obs>>

AddDummyNode ==
    /\ pc = "ids"
    /\ Len(returned) < MaxCalls
    /\ \E name \in Names, type \in {"edge", "selfedge"} :
          LET attrs == [width |-> 0, height |-> 0, rank |-> 0]
              r == addDummyNode(g, idCounter, type, attrs, name)
          IN /\ g' = r.g
             /\ idCounter' = r.idCounter
             /\ ret' = r.v
             /\ args' = [op |-> "addDummyNode", g |-> g, type |-> type,
                         attrs |-> attrs, name |-> name]
             /\ returned' = Record("addDummyNode", name, Drawn(idCounter, r.idCounter), r.v)
    /\ UNCHANGED <<pc, loop, obs>>

AddBorderNode ==
    /\ pc = "ids"
    /\ Len(returned) < MaxCalls
    /\ \E prefix \in Names, pos \in {<<>>, <<1, 0>>} :
          LET r == addBorderNode(g, idCounter, prefix, pos)
          IN /\ g' = r.g
             /\ idCounter' = r.idCounter
             /\ ret' = r.v
             /\ args' = [op |-> "addBorderNode", g |-> g, type |-> "border",
                         pos |-> pos, name |-> prefix]
             /\ returned' = Record("addBorderNode", prefix, Drawn(idCounter, r.idCounter), r.v)
    /\ UNCHANGED <<pc, loop, obs>>

CreateRootNode ==
    /\ pc = "ids"
    /\ Len(returned) < MaxCalls
    /\ LET u == createRootNode(g, idCounter)
       IN /\ idCounter' = u.idCounter
          /\ ret' = u.id
          /\ args' = [op |-> "createRootNode"]
          /\ returned' = Record("createRootNode", ROOT, u.idCounter, u.id)
    /\ UNCHANGED <<pc, g, loop, obs>>

NextIds == UniqueId \/ AddDummyNode \/ AddBorderNode \/ CreateRootNode

SpecIds == InitIds /\ [][NextIds]_vars

AddsDummy == args.op \in {"addDummyNode", "addBorderNode"}

\* C7: addDummyNode returns an id that was not a node of the graph it was
\* given; afterwards the nodes are the old nodes plus exactly that id, the new
\* node is tagged dummy = type and no old node's attributes have changed.
C7_DummyNodeIsFresh ==
    AddsDummy =>
        /\ ~hasNode(args.g, ret)
        /\ SeqRange(g.nodes) = SeqRange(args.g.nodes) \cup {ret}
        /\ Len(g.nodes) = Len(args.g.nodes) + 1
        /\ g.label[ret].dummy = args.type
        /\ \A v \in SeqRange(args.g.nodes) : g.label[v] = args.g.label[v]

\* the name and the next two generated ids were all taken
C7_Witness ==
    /\ args.op = "addDummyNode"
    /\ args.name = <<"x">>
    /\ {<<"x">>, <<"x", "1">>, <<"x", "2">>} \subseteq SeqRange(args.g.nodes)
    /\ ret = <<"x", "3">>

\* C8 as stated: no two calls ever return the same identifier.
C8_NoTwoCallsReturnSameId ==
    \A a, b \in DOMAIN returned : a # b => returned[a].id # returned[b].id

\* C8, amended: the counter only increases from call to call, and two
\* identifiers built from the counter with the same prefix are different.
C8_SamePrefixIdsDiffer ==
    \A a, b \in DOMAIN returned :
        (a < b /\ returned[a].n > 0 /\ returned[b].n > 0) =>
            /\ returned[a].n < returned[b].n
            /\ returned[b].n <= idCounter
            /\ returned[a].prefix = returned[b].prefix => returned[a].id # returned[b].id

C8_Witness ==
    \E a, b \in DOMAIN returned :
        /\ a < b
        /\ returned[a].n > 0 /\ returned[b].n > returned[a].n + 1
        /\ returned[a].prefix = returned[b].prefix
        /\ returned[a].op = "uniqueId" /\ returned[b].op # "uniqueId"

(***************************************************************************)
(* Scenario: empty-rank removal.  Up to MaxNodes nodes with any integer    *)
(* ranks in -1..MaxRankValue and any nodeRankFactor in 1..MaxFactor.       *)
(* args.g is the graph before the call.                                    *)
(***************************************************************************)
InitCompact ==
    /\ pc = "compact_start"
    /\ \E n \in 1..MaxNodes, f \in 1..MaxFactor :
          \E r \in [1..n -> (-1)..MaxRankValue] :
             g = [nodes |-> [k \in 1..n |-> k], rank |-> r, nodeRankFactor |-> f]
    /\ args = <<>>
    /\ ret = 0
    /\ idCounter = 0
    /\ returned = <<>>
    /\ loop = <<>>
    /\ obs = <<>>

RemoveEmptyRanks ==
    /\ pc = "compact_start"
    /\ g' = removeEmptyRanks(g)
    /\ args' = [g |-> g]
    /\ pc' = "compacted"
    /\ UNCHANGED <<ret, idCounter, returned, loop, obs>>

NextCompact == RemoveEmptyRanks

SpecCompact == InitCompact /\ [][NextCompact]_vars

RankValues(gr) == {gr.rank[v] : v \in DOMAIN gr.rank}
MinRankOf(gr) == CHOOSE m \in RankValues(gr) : \A r \in RankValues(gr) : m <= r
MaxRankOf(gr) == CHOOSE m \in RankValues(gr) : \A r \in RankValues(gr) : m >= r
EmptyRanks(gr) == (MinRankOf(gr) .. MaxRankOf(gr)) \ RankValues(gr)

OrderOfRanksPreserved(old, new) ==
    \A u, v \in DOMAIN old.rank :
        /\ old.rank[u] = old.rank[v] => new.rank[u] = new.rank[v]
        /\ old.rank[u] < old.rank[v] => new.rank[u] < new.rank[v]

\* C6 as stated: afterwards no rank between the minimum and the maximum is
\* empty at an offset from the minimum that is not a multiple of
\* nodeRankFactor, and the relative order of the non-empty ranks is preserved.
C6_NoOffFactorEmptyRankLeft ==
    pc = "compacted" =>
        /\ \A r \in EmptyRanks(g) : (r - MinRankOf(g)) % g.nodeRankFactor = 0
        /\ OrderOfRanksPreserved(args.g, g)

\* the empty ranks of the graph before the call that the call removes
Removable(old) ==
    {r \in EmptyRanks(old) : (r - MinRankOf(old)) % old.nodeRankFactor # 0}

\* C6, amended: the call removes exactly the empty ranks whose offset from the
\* minimum rank before the call is not a multiple of nodeRankFactor (every
\* node's rank drops by the number of such ranks below it, the minimum stays),
\* and the relative order of the non-empty ranks is preserved.
C6_RemovesOffFactorEmptyRanks ==
    pc = "compacted" =>
        /\ \A v \in DOMAIN g.rank :
              g.rank[v] = args.g.rank[v]
                          - Cardinality({r \in Removable(args.g) : r < args.g.rank[v]})
        /\ Cardinality(EmptyRanks(g))
              = Cardinality(EmptyRanks(args.g)) - Cardinality(Removable(args.g))
        /\ OrderOfRanksPreserved(args.g, g)

\* ranks 0 and 4 with factor 2: ranks 1 and 3 go, rank 2 stays as rank 1
C6_Witness ==
    /\ pc = "compacted"
    /\ g.nodeRankFactor = 2
    /\ RankValues(args.g) = {0, 4}
    /\ RankValues(g) = {0, 2}

(***************************************************************************)
(* Scenario: layer-graph construction.  Three nodes, each a base node of   *)
(* rank 0 or 1 or a subgraph node spanning ranks 1..2 (with one border     *)
(* node id per rank and side); up to MaxEdges edges between distinct       *)
(* nodes, parallel edges (names 0 and 1) included, of weight 1 or 2; when  *)
(* node c is a subgraph node, node b may be its child.                     *)
(***************************************************************************)
LayerNodeIds == <<<<"a">>, <<"b">>, <<"c">>>>

NodeKinds == {"rank0", "rank1", "span"}

CandidateEdges ==
    {[v |-> p[1], w |-> p[2], name |-> nm] :
        p \in {q \in SeqRange(LayerNodeIds) \X SeqRange(LayerNodeIds) : q[1] # q[2]},
        nm \in {0, 1}}

Border(side, v, r) == <<side>> \o v \o NumberToString(r)

LayerInput(kind, nested, E, wt) ==
    LET V == SeqRange(LayerNodeIds)
        S == {v \in V : kind[v] = "span"}
    IN [nodes |-> LayerNodeIds,
        rank |-> [v \in V \ S |-> IF kind[v] = "rank0" THEN 0 ELSE 1],
        minRank |-> [v \in S |-> 1],
        maxRank |-> [v \in S |-> 2],
        borderLeft |-> [v \in S |-> [r \in 1..2 |-> Border("l", v, r)]],
        borderRight |-> [v \in S |-> [r \in 1..2 |-> Border("r", v, r)]],
        parent |-> IF nested /\ <<"c">> \in S
                   THEN [v \in {<<"b">>} |-> <<"c">>] ELSE EmptyFn,
        edges |-> E,
        edge |-> [e \in E |-> [weight |-> wt[e], minlen |-> 1]]]

InitLayer ==
    /\ pc = "layer_start"
    /\ \E kind \in [SeqRange(LayerNodeIds) -> NodeKinds], nested \in BOOLEAN :
          \E E \in {F \in SUBSET CandidateEdges : Cardinality(F) <= MaxEdges} :
             \E wt \in [E -> {1, 2}] :
                /\ nested => kind[<<"c">>] = "span"
                /\ g = LayerInput(kind, nested, E, wt)
    /\ \E rank \in {0, 1}, relationship \in {"inEdges", "outEdges"}, indexed \in BOOLEAN :
          args = [rank |-> rank, relationship |-> relationship, indexed |-> indexed]
    /\ ret = <<>>
    /\ idCounter = 0
    /\ returned = <<>>
    /\ loop = <<>>
    /\ obs = <<>>

BuildLayerGraph ==
    /\ pc = "layer_start"
    /\ LET b == buildLayerGraph(g, idCounter, args.rank, args.relationship,
                                IF args.indexed THEN nodesByRank(g, args.rank)
                                ELSE "undefined")
       IN /\ ret' = b.lg
          /\ idCounter' = b.idCounter
    /\ pc' = "layer_built"
    /\ UNCHANGED <<g, args, returned, loop, obs>>

NextLayer == BuildLayerGraph

SpecLayer == InitLayer /\ [][NextLayer]_vars

RECURSIVE SumWeights(_, _)
SumWeights(gr, E) ==
    IF E = {} THEN 0
    ELSE LET e == CHOOSE x \in E : TRUE
         IN gr.edge[e].weight + SumWeights(gr, E \ {e})

\* the edges of g of the requested relationship that join movable v to u
Joining(gr, relationship, v, u) ==
    IF relationship = "inEdges"
    THEN {e \in gr.edges : e.w = v /\ e.v = u}
    ELSE {e \in gr.edges : e.v = v /\ e.w = u}

\* C9: the layer graph has, for each movable node v and each neighbour u
\* joined to v by an edge of the requested relationship, the single edge
\* (u, v), whose weight is the sum of the weights of all those edges of g;
\* it has no other edge.
C9_MergedEdgeWeights ==
    pc = "layer_built" =>
        /\ \A v, u \in SeqRange(g.nodes) :
              (isMovable(g, v, args.rank) /\ Joining(g, args.relationship, v, u) # {}) =>
                  /\ [v |-> u, w |-> v] \in ret.edges
                  /\ ret.edge[[v |-> u, w |-> v]].weight
                        = SumWeights(g, Joining(g, args.relationship, v, u))
        /\ \A e \in ret.edges :
              /\ isMovable(g, e.w, args.rank)
              /\ Joining(g, args.relationship, e.w, e.v) # {}
        /\ DOMAIN ret.edge = ret.edges

\* two parallel edges of weights 1 and 2 into a movable node, merged into 3
C9_Witness ==
    /\ pc = "layer_built"
    /\ args.relationship = "inEdges"
    /\ \E e \in ret.edges :
          /\ Cardinality(Joining(g, "inEdges", e.w, e.v)) = 2
          /\ ret.edge[e].weight = 3

(***************************************************************************)
(* Scenario: ordering.  The graph has 1..MaxRanks ranks of two nodes each  *)
(* (a, b on rank 0, c, d on rank 1, ...) and, between adjacent ranks, the  *)
(* edges left-left, right-right and left-right: its crossing count is any  *)
(* number from 0 to the number of ranks minus one, depending on the        *)
(* orders.  The nodes of the first ranks may be the border nodes of a      *)
(* subgraph.  order() is called with the                                   *)
(* default options, with disableOptimalOrderHeuristic, or with a           *)
(* customOrder callback.  obs records, per iteration, its index, the       *)
(* family and flag it used, its crossing count, and what the claims        *)
(* compare the loop's locals with: the crossing count of the seeded order  *)
(* and of the first iteration,                                             *)
(* the lowest crossing count of all iterations with the layering of the    *)
(* first iteration that had it, whether a later iteration had the same     *)
(* count with another layering, and the number of consecutive iterations   *)
(* that did not go below the lowest count before them.                     *)
(***************************************************************************)
Letters == <<"a", "b", "c", "d", "e", "f", "g", "h", "i", "j", "k", "l">>

NodeAt(r, k) == <<Letters[2 * r + k]>>

\* with clustered, the nodes of ranks 0 and 1 are the border nodes of a
\* subgraph s that spans these ranks
OrderInput(R, clustered) ==
    LET V == [k \in 1..(2 * R) |-> <<Letters[k]>>]
        s == <<"s">>
        span == 0..(IF R >= 2 THEN 1 ELSE 0)
        inside == {NodeAt(r, k) : r \in span, k \in 1..2}
        between(r) ==
            {[v |-> NodeAt(r, 1), w |-> NodeAt(r + 1, 1), name |-> 0],
             [v |-> NodeAt(r, 2), w |-> NodeAt(r + 1, 2), name |-> 0],
             [v |-> NodeAt(r, 1), w |-> NodeAt(r + 1, 2), name |-> 0]}
        E == UNION {between(r) : r \in 0..(R - 2)}
        plain ==
            [nodes |-> V,
             rank |-> [v \in SeqRange(V) |-> ((CHOOSE k \in DOMAIN V : V[k] = v) - 1) \div 2],
             order |-> EmptyFn, minRank |-> EmptyFn, maxRank |-> EmptyFn,
             borderLeft |-> EmptyFn, borderRight |-> EmptyFn, parent |-> EmptyFn,
             edges |-> E,
             edge |-> [e \in E |-> [weight |-> 1, minlen |-> 1]]]
    IN IF clustered
       THEN [plain EXCEPT
                !.nodes = Append(@, s),
                !.minRank = Put(@, s, 0),
                !.maxRank = Put(@, s, IF R >= 2 THEN 1 ELSE 0),
                !.borderLeft = Put(@, s, [r \in span |-> NodeAt(r, 1)]),
                !.borderRight = Put(@, s, [r \in span |-> NodeAt(r, 2)]),
                !.parent = [v \in inside |-> s]]
       ELSE plain

InitOrderingUpTo(ranks) ==
    /\ pc = "order_start"
    /\ \E R \in 1..ranks, clustered \in BOOLEAN : g = OrderInput(R, clustered)
    /\ \E opts \in {"default", "disableOptimalOrderHeuristic", "customOrder"} :
          args = [opts |-> opts]
    /\ ret = 0
    /\ idCounter = 0
    /\ returned = <<>>
    /\ loop = <<>>
    /\ obs = <<>>

InitOrdering == InitOrderingUpTo(MaxRanks)

\* lines 29-32: the callback gets g and order itself; what it does is its own
OrderCustom ==
    /\ pc = "order_start"
    /\ args.opts = "customOrder"
    /\ pc' = "order_delegated"
    /\ UNCHANGED <<g, args, ret, idCounter, returned, loop, obs>>

\* lines 34-46: the layer graphs, the seeded order, the loop's locals
OrderSeed ==
    /\ pc = "order_start"
    /\ args.opts # "customOrder"
    /\ \E mr \in {maxRank(g)} :
       \E down \in {buildLayerGraphs(g, idCounter, range(1, mr + 1, 1), "inEdges")} :
       \E up \in {buildLayerGraphs(g, down.idCounter, range(mr - 1, -1, -1), "outEdges")} :
       \E layering \in initOrder(g) :
             /\ g' = assignOrder(g, layering)
             /\ idCounter' = up.idCounter
             /\ loop' = [downLayerGraphs |-> down.lgs, upLayerGraphs |-> up.lgs,
                         layering |-> layering, i |-> 0, lastBest |-> 0,
                         bestCC |-> POSITIVE_INFINITY, best |-> [defined |-> FALSE]]
             /\ obs' = [seedCC |-> crossCount(g, layering), iter |-> -1,
                        family |-> "none", biasRight |-> FALSE, prevBiasRight |-> FALSE,
                        lastCC |-> POSITIVE_INFINITY, firstCC |-> POSITIVE_INFINITY,
                        minCC |-> POSITIVE_INFINITY,
                        minLayering |-> <<>>, tied |-> FALSE, quiet |-> 0]
    /\ pc' = IF args.opts = "disableOptimalOrderHeuristic" THEN "order_done"
             ELSE "order_loop"
    /\ UNCHANGED <<args, ret, returned>>

\* lines 48-58: one iteration of the loop
Iterate ==
    /\ pc = "order_loop"
    /\ loopContinues(loop)
    /\ LET family == sweepFamily(loop.i)
           biasRight == biasRightAt(loop.i)
       IN \E sorted \in sortSubgraphs(loop[family]) :
          \E sw \in {sweepLayerGraphs(g, loop[family], sorted)} :
          \E layering \in {buildLayerMatrix(sw.g)} :
          \E cc \in {crossCount(sw.g, layering)} :
                /\ g' = sw.g
                /\ loop' = orderIteration(loop, sw.lgs, layering, cc)
                /\ obs' = [obs EXCEPT
                              !.iter = loop.i,
                              !.family = family,
                              !.prevBiasRight = obs.biasRight,
                              !.biasRight = biasRight,
                              !.lastCC = cc,
                              !.firstCC = IF loop.i = 0 THEN cc ELSE @,
                              !.quiet = IF cc < obs.minCC THEN 0 ELSE @ + 1,
                              !.minLayering = IF cc < obs.minCC THEN layering ELSE @,
                              !.tied = IF cc < obs.minCC THEN FALSE
                                       ELSE @ \/ (cc = obs.minCC /\ layering # obs.minLayering),
                              !.minCC = IF cc < @ THEN cc ELSE @]
    /\ UNCHANGED <<pc, args, ret, idCounter, returned>>

\* line 60: assignOrder(g, best); Object.values(undefined) would throw
Commit ==
    /\ pc = "order_loop"
    /\ ~loopContinues(loop)
    /\ g' = IF committed(loop).defined THEN assignOrder(g, committed(loop).layering) ELSE g
    /\ pc' = IF committed(loop).defined THEN "order_done" ELSE "order_threw"
    /\ UNCHANGED <<args, ret, idCounter, returned, loop, obs>>

NextOrder == OrderCustom \/ OrderSeed \/ Iterate \/ Commit

SpecOrder == InitOrdering /\ [][NextOrder]_vars

Returned == pc = "order_done" /\ args.opts = "default"

InLoop == pc \in {"order_loop", "order_done"} /\ args.opts = "default" /\ obs.iter >= 0

CommittedCC == crossCount(g, buildLayerMatrix(g))

\* C2: when order(g) returns with the heuristic enabled, the crossing count
\* of the committed order is at most the crossing count of the order the
\* seeder gave, whatever the sorter returned.
C2_NeverWorseThanSeededOrder == Returned => CommittedCC <= obs.seedCC

\* C3: the loop stops exactly when 4 consecutive iterations have completed
\* without a crossing count strictly below the best before them: at the head
\* of the loop it goes on if and only if fewer than 4 such iterations have
\* just completed, and it has returned only after 4 of them.
C3_StopsAfterFourQuietIterations ==
    /\ (pc = "order_loop" /\ InLoop) => (loopContinues(loop) <=> obs.quiet < 4)
    /\ Returned => obs.quiet = 4

\* the k-th layer graph of the downward family is the one of rank k with the
\* incoming edges of its nodes; the k-th of the upward family is the one of
\* rank maxRank - k with the outgoing edges of its nodes, each edge from the
\* neighbour to the node of the rank
DownFamily ==
    /\ Len(loop.downLayerGraphs) = maxRank(g)
    /\ \A k \in DOMAIN loop.downLayerGraphs :
          LET lg == loop.downLayerGraphs[k]
          IN /\ movableLeaves(lg) = {v \in DOMAIN g.rank : g.rank[v] = k}
             /\ lg.edges = {[v |-> e.v, w |-> e.w] : e \in {d \in g.edges : g.rank[d.w] = k}}

UpFamily ==
    /\ Len(loop.upLayerGraphs) = maxRank(g)
    /\ \A k \in DOMAIN loop.upLayerGraphs :
          LET lg == loop.upLayerGraphs[k]
              rank == maxRank(g) - k
          IN /\ movableLeaves(lg) = {v \in DOMAIN g.rank : g.rank[v] = rank}
             /\ lg.edges = {[v |-> e.w, w |-> e.v] : e \in {d \in g.edges : g.rank[d.v] = rank}}

\* C4 as the claim has it: an even iteration sweeps the downward family, an
\* odd one the upward family, and the flag changes only at an iteration
\* whose index is a multiple of 4.
C4_EvenDownOddUp ==
    InLoop =>
        /\ DownFamily /\ UpFamily
        /\ obs.family = (IF obs.iter % 2 = 0 THEN "downLayerGraphs" ELSE "upLayerGraphs")
        /\ (obs.biasRight # obs.prevBiasRight) => obs.iter % 4 = 0

\* C4: iteration i (from 0) sweeps the upward family (ranks maxRank-1..0,
\* outgoing edges) when i is even and the downward family (ranks 1..maxRank,
\* incoming edges) when i is odd; the flag passed to the sorter is false at
\* iteration 0 and changes exactly at the even iterations after it.
C4_EvenUpOddDown ==
    InLoop =>
        /\ DownFamily /\ UpFamily
        /\ obs.family = (IF obs.iter % 2 = 0 THEN "upLayerGraphs" ELSE "downLayerGraphs")
        /\ obs.iter = 0 => ~obs.biasRight
        /\ (obs.biasRight # obs.prevBiasRight) <=> (obs.iter > 0 /\ obs.iter % 2 = 0)

C4_Witness ==
    /\ InLoop
    /\ obs.iter = 2 /\ obs.family = "upLayerGraphs"
    /\ obs.biasRight /\ ~obs.prevBiasRight
    /\ Len(loop.upLayerGraphs) >= 2

\* C5: when order(g) returns with the heuristic enabled, every ranked node's
\* order is its position in the layer matrix of the first of the iterations
\* with the lowest crossing count; the loop never ends without a snapshot.
C5_CommitsEarliestBestSnapshot ==
    /\ pc # "order_threw"
    /\ Returned =>
          /\ loop.best.defined
          /\ \A v \in DOMAIN g.rank :
                /\ v \in DOMAIN g.order
                /\ g.order[v] \in DOMAIN obs.minLayering[g.rank[v]]
                /\ obs.minLayering[g.rank[v]][g.order[v]] = v

\* a later iteration tied the lowest count with another layering, and the
\* last iteration left yet another order than the committed one
C5_Witness ==
    /\ Returned
    /\ obs.tied
    /\ buildLayerMatrix(g) # loop.layering
    /\ buildLayerMatrix(g) = obs.minLayering

NodesOfRank(r) == {v \in DOMAIN g.rank : g.rank[v] = r}

\* the orders of the nodes of rank r are 0..count-1, each once, and the row
\* of the layer matrix has a node at each of these positions and no other
DenseRank(row, r) ==
    LET at == NodesOfRank(r)
        positions == 0..(Cardinality(at) - 1)
    IN /\ at \subseteq DOMAIN g.order
       /\ {g.order[v] : v \in at} = positions
       /\ DOMAIN row = positions
       /\ \A i \in positions : row[i] \in at

\* C11: after the initial assignment, after every sweep iteration and when
\* order(g) returns, the order values of the nodes of each rank are a
\* permutation of 0..count-1 and the layer matrix has no hole.
C11_OrdersArePermutations ==
    pc \in {"order_loop", "order_done"} =>
        \E matrix \in {buildLayerMatrix(g)} :
            \A r \in 0..maxRank(g) : DenseRank(matrix[r], r)

\* a returned run over three ranks and a subgraph whose sweeps changed the
\* seeded order
C11_Witness ==
    /\ Returned
    /\ maxRank(g) >= 2
    /\ <<"s">> \in DOMAIN g.minRank
    /\ CommittedCC # obs.seedCC

(***************************************************************************)
(* order() is synchronous code on one thread: once in the loop it goes on  *)
(* to the next iteration or to the commit, whatever the sorter returns.    *)
(* The behaviours are checked over the graphs of up to MaxFairRanks ranks. *)
(***************************************************************************)
SpecOrderFair ==
    /\ InitOrderingUpTo(MaxFairRanks)
    /\ [][NextOrder]_vars
    /\ WF_vars(Iterate)
    /\ WF_vars(Commit)

\* every improving iteration after the first lowers the best count by at
\* least one, and at most three iterations run from one improving iteration
\* to the next or to the exit
IterationsBounded ==
    (pc \in {"order_loop", "order_done"} /\ args.opts = "default" /\ obs.iter >= 0) =>
        /\ obs.minCC >= 0
        /\ loop.i <= 4 + 3 * (obs.firstCC - obs.minCC)

\* C12: the ordering loop terminates for every sequence of sorter outputs:
\* the number of its iterations is bounded by the first iteration's crossing
\* count, and a call in the loop commits and returns.
C12_LoopTerminates ==
    /\ []IterationsBounded
    /\ (pc = "order_loop") ~> (pc = "order_done")

\* a returned run whose loop was prolonged by a later improvement
C12_Witness ==
    /\ Returned
    /\ obs.firstCC > obs.minCC
    /\ loop.i > 4
=============================================================================
